---- MODULE Spec2Model ----
(***************************************************************************)
(* A model of aasemble/django/apps/buildsvc/models.py: the polling of a    *)
(* PackageSource, the signed repository (key, configuration, pool, index), *)
(* the upload manifest filter, the build attempt of PackageSource and the  *)
(* BuildRecord log.                                                        *)
(*                                                                         *)
(* Python values are modelled as tuples so that they stay comparable:      *)
(* a str is the tuple of its characters, None is the tuple <<"None">>.     *)
(***************************************************************************)
EXTENDS Integers, Sequences, FiniteSets, TLC

VARIABLES
    last_seen_revision,  \* PackageSource.last_seen_revision (persisted)
    poll_hist,           \* what the last poll() call did (history)
    repo,                \* the Repository: key, key file, conf, pool, index
    changes_files,       \* the .changes files on disk, in listing order
    last_op,             \* what the last Repository call did (history)
    build_counter,       \* PackageSource.build_counter (persisted)
    records,             \* the BuildRecord rows, in creation order
    attempt,             \* the running build_real call and its BuildRecord object
    tmpdirs,             \* the temporary working areas that exist
    logs,                \* the build log files, the logging handlers, the lines logged
    last_built_version,  \* PackageSource.last_built_version (persisted)
    last_built_name,     \* PackageSource.last_built_name (persisted)
    workers              \* the copy of the PackageSource each worker has loaded

vars == <<last_seen_revision, poll_hist, repo, changes_files, last_op,
          build_counter, records, attempt, tmpdirs, logs,
          last_built_version, last_built_name, workers>>

pollVars == <<last_seen_revision, poll_hist>>

repoVars == <<repo, changes_files, last_op>>

buildVars == <<build_counter, records, attempt, tmpdirs, logs>>

\* The fields of the PackageSource build_real does not assign, and the
\* copies of workers that run at the same time.
frameVars == <<last_built_version, last_built_name, workers>>

None == <<"None">>

TAB == "\t"

NL == "\n"

(***************************************************************************)
(* PackageSource.poll                                                      *)
(***************************************************************************)

\* str.split('\t')[0]: the characters before the first tab, all of them
\* when there is no tab.
RECURSIVE SplitTabHead(_)
SplitTabHead(s) ==
    IF s = <<>> THEN <<>>
    ELSE IF Head(s) = TAB THEN <<>>
    ELSE <<Head(s)>> \o SplitTabHead(Tail(s))

\* What `git ls-remote <url> refs/heads/<branch>` prints when it exits 0:
\* nothing when no ref matches, else one "<sha>\t<ref>\n" line per match.
LsRemoteOutputs ==
    { <<>>,
      <<"a", TAB, "r", NL>>,
      <<"b", TAB, "r", NL>>,
      <<"a", "b", TAB, "r", NL>>,
      <<"b", TAB, "r", NL, "a", TAB, "x", "r", NL>> }

NoPoll == [ret |-> "none", cmd |-> "none", stdout |-> <<>>, before |-> None,
           prev_ret |-> "none", prev_cmd |-> "none", prev_stdout |-> <<>>]

\* The record of a poll that ended with `ret` after run_cmd ended with `cmd`.
PollRecord(ret, cmd, stdout) ==
    [ret |-> ret, cmd |-> cmd, stdout |-> stdout,
     before |-> last_seen_revision,
     prev_ret |-> poll_hist.ret, prev_cmd |-> poll_hist.cmd,
     prev_stdout |-> poll_hist.stdout]

\* poll() when run_cmd returned `stdout`.
PollMissingCompare(stdout) ==
    /\ last_seen_revision' = SplitTabHead(stdout)
    /\ poll_hist' = PollRecord("True", "ok", stdout)

Poll(stdout) ==
    LET sha == SplitTabHead(stdout) IN
    IF sha = last_seen_revision
    THEN /\ UNCHANGED last_seen_revision
         /\ poll_hist' = PollRecord("False", "ok", stdout)
    ELSE /\ last_seen_revision' = sha
         /\ poll_hist' = PollRecord("True", "ok", stdout)

\* poll() when run_cmd raised (git exited nonzero): the exception leaves
\* poll at line 241, before anything is assigned.
PollRaises ==
    /\ UNCHANGED last_seen_revision
    /\ poll_hist' = PollRecord("raised", "raised", <<>>)

\* utils.run_cmd: a tool that exits nonzero makes run_cmd raise.
RunCmdRaises(exit) == exit # 0

ExitCodes == {0, 1}

\* One call of poll(): git ls-remote exits with `exit` and prints `stdout`.
DoPoll ==
    /\ \E exit \in ExitCodes, stdout \in LsRemoteOutputs :
           IF RunCmdRaises(exit) THEN PollRaises ELSE Poll(stdout)
    /\ UNCHANGED <<repoVars, buildVars, frameVars>>

(***************************************************************************)
(* remove_ddebs_from_changes                                               *)
(***************************************************************************)

Sections == {"Checksums-Sha1", "Checksums-Sha256", "Files"}

DDEB == <<".", "d", "d", "e", "b">>

\* str.endswith
EndsWith(s, suffix) ==
    /\ Len(s) >= Len(suffix)
    /\ SubSeq(s, Len(s) - Len(suffix) + 1, Len(s)) = suffix

\* A manifest maps each section to [present, files]: whether the manifest
\* has the section, and the names of its entries in order.
RemoveDdebsFilesOnly(changes) ==
    [section \in Sections |->
        IF changes[section].present /\ section = "Files"
        THEN [present |-> TRUE,
              files |-> SelectSeq(changes[section].files,
                                  LAMBDA f : ~EndsWith(f, DDEB))]
        ELSE changes[section]]

RemoveDdebsFromChanges(changes) ==
    [section \in Sections |->
        IF ~changes[section].present
        THEN changes[section]
        ELSE [present |-> TRUE,
              files |-> SelectSeq(changes[section].files,
                                  LAMBDA f : ~EndsWith(f, DDEB))]]

(***************************************************************************)
(* Repository                                                              *)
(***************************************************************************)

NoFile == <<"NoFile">>

NoConf == <<"NoConf">>

\* `not self.key_id`
Falsy(x) == x = <<>> \/ x = None

\* The result of a step of a Repository method: the repository after it,
\* whether it raised, and the calls it made, in order.
Ok(r, calls) == [repo |-> r, raised |-> FALSE, calls |-> calls]

Raised(r, calls) == [repo |-> r, raised |-> TRUE, calls |-> calls]

\* Sequencing of statements: `next` runs only if `prev` did not raise.
Then(prev, next) ==
    IF prev.raised THEN prev
    ELSE [repo |-> next.repo, raised |-> next.raised,
          calls |-> prev.calls \o next.calls]

\* A fresh Repository row: key_id is the empty CharField, nothing on disk.
FreshRepo ==
    [key_id |-> <<>>, keys_generated |-> 0,
     keyfile |-> NoFile, key_writes |-> 0,
     conf |-> NoConf,
     pool |-> {},
     index |-> [exported |-> FALSE, pkgs |-> {}]]

\* What the tools do in one call of a Repository method: the exit code of
\* each tool, and whether gpg --gen-key prints a "gpg: key " line.
ToolNames == {"gpg --gen-key", "gpg --export", "reprepro include", "reprepro export"}

\* A method stops at the first tool that fails, so at most one tool fails in
\* an environment, and the output of gpg --gen-key matters only when no
\* tool fails.
Envs ==
    { e \in [exit : [ToolNames -> ExitCodes], keyline : BOOLEAN] :
        /\ Cardinality({t \in ToolNames : e.exit[t] # 0}) <= 1
        /\ ~e.keyline => \A t \in ToolNames : e.exit[t] = 0 }

\* RepreproDriver.generate_key: the third word of the first "gpg: key " line
\* of the output, None when there is none. The n-th key gpg makes is <<"K", n>>.
GenerateKey(r, env) ==
    IF env.keyline THEN <<"K", r.keys_generated + 1>> ELSE None

EnsureKeyAlways(r, env) ==
    IF RunCmdRaises(env.exit["gpg --gen-key"])
    THEN Raised(r, <<"ensure_key", "gpg --gen-key">>)
    ELSE LET k == GenerateKey(r, env) IN
         IF k = None
         THEN Raised([r EXCEPT !.key_id = None], <<"ensure_key", "gpg --gen-key">>)
         ELSE Ok([r EXCEPT !.key_id = k, !.keys_generated = @ + 1],
                 <<"ensure_key", "gpg --gen-key">>)

\* Repository.ensure_key. A key_id of None cannot be saved (the column is
\* NOT NULL): save() raises.
EnsureKey(r, env) ==
    IF Falsy(r.key_id)
    THEN IF RunCmdRaises(env.exit["gpg --gen-key"])
         THEN Raised(r, <<"ensure_key", "gpg --gen-key">>)
         ELSE LET k == GenerateKey(r, env) IN
              IF k = None
              THEN Raised([r EXCEPT !.key_id = None],
                          <<"ensure_key", "gpg --gen-key">>)
              ELSE Ok([r EXCEPT !.key_id = k, !.keys_generated = @ + 1],
                      <<"ensure_key", "gpg --gen-key">>)
    ELSE Ok(r, <<"ensure_key">>)

\* Repository.ensure_directory_structure: the templates are rendered with
\* the repository, over what is there.
EnsureDirectoryStructure(r) ==
    Ok([r EXCEPT !.conf = <<"conf", r.key_id>>], <<"ensure_directory_structure">>)

ExportKeyAlwaysWrites(r, env) ==
    IF RunCmdRaises(env.exit["gpg --export"])
    THEN Raised(r, <<"export_key", "gpg --export">>)
    ELSE Ok([r EXCEPT !.keyfile = <<"armor", r.key_id>>, !.key_writes = @ + 1],
            <<"export_key", "gpg --export">>)

\* Repository.export_key
ExportKey(r, env) ==
    IF r.keyfile = NoFile
    THEN IF RunCmdRaises(env.exit["gpg --export"])
         THEN Raised(r, <<"export_key", "gpg --export">>)
         ELSE Ok([r EXCEPT !.keyfile = <<"armor", r.key_id>>,
                           !.key_writes = @ + 1],
                 <<"export_key", "gpg --export">>)
    ELSE Ok(r, <<"export_key">>)

\* Repository._reprepro('export'): the index is made anew from the pool.
RepreproExport(r, env) ==
    IF RunCmdRaises(env.exit["reprepro export"])
    THEN Raised(r, <<"reprepro export">>)
    ELSE Ok([r EXCEPT !.index = [exported |-> TRUE, pkgs |-> r.pool]],
            <<"reprepro export">>)

\* The names a manifest's Files section lists.
FilesOf(changes) ==
    IF changes["Files"].present
    THEN {changes["Files"].files[i] : i \in 1..Len(changes["Files"].files)}
    ELSE {}

\* Repository._reprepro('--ignore=wrongdistribution', 'include', ...): the
\* files the manifest lists join the pool.
RepreproInclude(r, changes, env) ==
    IF RunCmdRaises(env.exit["reprepro include"])
    THEN Raised(r, <<"reprepro include">>)
    ELSE Ok([r EXCEPT !.pool = @ \cup FilesOf(changes)], <<"reprepro include">>)

\* Repository.export
Export(r, env) ==
    LET s0 == Ok(r, <<"export">>)
        s1 == Then(s0, EnsureKey(s0.repo, env))
        s2 == Then(s1, EnsureDirectoryStructure(s1.repo))
        s3 == Then(s2, ExportKey(s2.repo, env))
        s4 == Then(s3, RepreproExport(s3.repo, env))
    IN  s4

ProcessChangesSwallowsInclude(r, changes, env) ==
    LET stripped == RemoveDdebsFromChanges(changes)
        s1 == EnsureDirectoryStructure(r)
        s2 == Then(s1, Ok(s1.repo, <<"remove_ddebs_from_changes">>))
        inc == RepreproInclude(s2.repo, stripped, env)
        s3 == Then(s2, Ok(inc.repo, inc.calls))
        s4 == Then(s3, Export(s3.repo, env))
    IN  [repo |-> s4.repo, raised |-> s4.raised, calls |-> s4.calls,
         changes |-> stripped]

\* Repository.process_changes: the result carries the manifest file as it
\* is on disk afterwards.
ProcessChanges(r, changes, env) ==
    LET stripped == RemoveDdebsFromChanges(changes)
        s1 == EnsureDirectoryStructure(r)
        s2 == Then(s1, Ok(s1.repo, <<"remove_ddebs_from_changes">>))
        s3 == Then(s2, RepreproInclude(s2.repo, stripped, env))
        s4 == Then(s3, Export(s3.repo, env))
    IN  [repo |-> s4.repo, raised |-> s4.raised, calls |-> s4.calls,
         changes |-> stripped]

(***************************************************************************)
(* Calls of Repository.export and Repository.process_changes               *)
(***************************************************************************)

MaxEntries == 2

DebName == <<"f", ".", "d", "e", "b">>

DdebName == <<"f", ".", "d", "d", "e", "b">>

\* A name that ends in ddeb but not in .ddeb
PlainName == <<"d", "d", "e", "b">>

EntryNames == {DebName, DdebName, PlainName}

EntryLists == UNION {[1..n -> EntryNames] : n \in 0..MaxEntries}

AbsentSection == [present |-> FALSE, files |-> <<>>]

\* The upload manifests: the sections a manifest has list the same files.
Manifests ==
    { [section \in Sections |->
          IF section \in has THEN [present |-> TRUE, files |-> l]
          ELSE AbsentSection] :
      has \in {Sections, {"Files", "Checksums-Sha256"},
               {"Checksums-Sha1", "Checksums-Sha256"}},
      l \in EntryLists }

NoManifest == [section \in Sections |-> AbsentSection]

NoEnv == [exit |-> [t \in ToolNames |-> 0], keyline |-> TRUE]

NoOp == [op |-> "none", raised |-> FALSE, calls |-> <<>>, env |-> NoEnv,
         changes_in |-> NoManifest, changes_out |-> NoManifest,
         file |-> 0, key_before |-> <<>>, keyfile_before |-> NoFile,
         after_export |-> FALSE]

\* What the tools that ran in a call did: the environment of the call, cut
\* down to the tools the call has run.
EnvSeen(env, calls) ==
    [exit |-> [t \in ToolNames |->
                  IF \E i \in DOMAIN calls : calls[i] = t THEN env.exit[t] ELSE 0],
     keyline |-> (\E i \in DOMAIN calls : calls[i] = "gpg --gen-key") => env.keyline]

\* The record of a Repository call with result `res`.
OpRecord(op, res, env, file, changes_in, changes_out) ==
    [op |-> op, raised |-> res.raised, calls |-> res.calls,
     env |-> EnvSeen(env, res.calls),
     file |-> file,
     changes_in |-> changes_in, changes_out |-> changes_out,
     key_before |-> repo.key_id, keyfile_before |-> repo.keyfile,
     after_export |-> last_op.op = "export" /\ ~last_op.raised]

\* A call of Repository.export()
DoExport ==
    /\ \E env \in Envs :
           LET res == Export(repo, env) IN
           /\ repo' = res.repo
           /\ last_op' = OpRecord("export", res, env, 0, NoManifest, NoManifest)
    /\ UNCHANGED <<frameVars, pollVars, buildVars, changes_files>>

\* A call of Repository.process_changes(series_name, changes_file) on one of
\* the files on disk: the file is rewritten in place.
DoProcessChanges ==
    /\ \E env \in Envs, i \in DOMAIN changes_files :
           LET res == ProcessChanges(repo, changes_files[i], env) IN
           /\ repo' = res.repo
           /\ changes_files' = [changes_files EXCEPT ![i] = res.changes]
           /\ last_op' = OpRecord("process_changes", res, env, i, changes_files[i],
                                  res.changes)
    /\ UNCHANGED <<frameVars, pollVars, buildVars>>

(***************************************************************************)
(* BuildRecord: logpath, buildlog, logger                                  *)
(***************************************************************************)

\* PackageSource.long_name and PackageSource.name of the one source.
LongName == "owner_pkg"

SourceName == "pkg"

\* BuildRecord.logpath
Logpath(br) ==
    IF br.version # ""
    THEN <<LongName, "/", LongName, "_", br.version, ".log">>
    ELSE <<LongName, "/", LongName, "_", ToString(br.build_counter), ".tmp.log">>

\* BuildRecord.buildlog: the path under the repository's buildlogs directory.
Buildlog(br) == <<"buildlogs", "/">> \o Logpath(br)

\* The name of the logger of a BuildRecord (line 340).
LoggerName(br) ==
    <<"buildsvc.pkgbuild.", SourceName, "_", ToString(br.build_counter)>>

NoLogs == [files |-> <<>>, inodes |-> <<>>, handlers |-> <<>>, written |-> <<>>]

\* logger.handlers of the logger called `name`
HandlersOf(lg, name) ==
    IF name \in DOMAIN lg.handlers THEN lg.handlers[name] ELSE <<>>

\* os.rename(old, new): the file at `old` is at `new`, in place of what was
\* there.
Rename(files, old, new) ==
    [p \in (DOMAIN files \ {old}) \cup {new} |->
        IF p = new THEN files[old] ELSE files[p]]

\* `for handler in logger.handlers: logger.removeHandler(handler)`: the loop
\* walks the list it shrinks, so it removes the 1st, 3rd, ... handler and
\* leaves the 2nd, 4th, ...
RemoveHandlersLoop(hs) == [i \in 1..(Len(hs) \div 2) |-> hs[2 * i]]

LogfileLeftBehind(files, saved, logpath) == files

\* logger, lines 336-338: the log file at the path used so far is moved
\* to the new path.
LogfileMoved(files, saved, logpath) ==
    IF saved # None /\ saved \in DOMAIN files
    THEN Rename(files, saved, logpath)
    ELSE files

\* The property BuildRecord.logger. A file is an inode: a handler writes to
\* the file it opened, wherever a rename has put it. FileHandler opens its
\* path for appending and makes the file when it is not there. moved_at is
\* history: the number of lines logged for the record when its file was
\* last moved.
LoggerProperty(lg, br) ==
    LET logpath == Buildlog(br) IN
    IF logpath = br.saved_logpath
    THEN [logs |-> lg, br |-> br]
    ELSE LET files1 == LogfileMoved(lg.files, br.saved_logpath, logpath)
             name == LoggerName(br)
             kept == RemoveHandlersLoop(HandlersOf(lg, name))
             exists == logpath \in DOMAIN files1
             inode == IF exists THEN files1[logpath] ELSE Len(lg.inodes) + 1
         IN  [logs |-> [lg EXCEPT
                  !.files = IF exists THEN files1
                            ELSE [p \in DOMAIN files1 \cup {logpath} |->
                                     IF p = logpath THEN inode ELSE files1[p]],
                  !.inodes = IF exists THEN @ ELSE Append(@, <<>>),
                  !.handlers = [n \in DOMAIN lg.handlers \cup {name} |->
                                   IF n = name THEN Append(kept, inode)
                                   ELSE lg.handlers[n]]],
              br |-> [br EXCEPT
                  !.saved_logpath = logpath,
                  !.moved_at = IF br.saved_logpath # None
                                  /\ br.saved_logpath \in DOMAIN lg.files
                               THEN Len(lg.written[br.id]) ELSE @]]

\* Each handler in `hs` appends `line` to its file.
RECURSIVE EmitAll(_, _, _)
EmitAll(inodes, hs, line) ==
    IF hs = <<>> THEN inodes
    ELSE EmitAll([inodes EXCEPT ![Head(hs)] = Append(@, line)], Tail(hs), line)

\* A line logged through the logger of `br`: its handlers write the line.
\* The k-th line logged for the record numbered n is <<n, k>>.
LogWrite(lg, br) ==
    LET line == <<br.id, Len(lg.written[br.id]) + 1>> IN
    [lg EXCEPT !.inodes = EmitAll(@, HandlersOf(lg, LoggerName(br)), line),
               !.written[br.id] = Append(@, line)]

\* `br.logger.info(...)`: the property, then a line.
LogThroughProperty(lg, br) ==
    LET a == LoggerProperty(lg, br) IN
    [logs |-> LogWrite(a.logs, a.br), br |-> a.br]

(***************************************************************************)
(* PackageSource.checkout and PackageSource.build_real                     *)
(***************************************************************************)

MaxBuilds == 2

MaxChanges == 3

\* The versions a BuildRecord takes, and the one the builder reports for
\* the source as it is.
Versions == {"1.0", "2.0"}

BuiltVersions == {"1.0"}

MaxLines == 3

\* What `git rev-parse HEAD` prints.
RevParseOutputs == {<<" ", "a", NL>>}

Whitespace == {" ", TAB, NL}

RECURSIVE LStrip(_)
LStrip(s) ==
    IF s # <<>> /\ Head(s) \in Whitespace THEN LStrip(Tail(s)) ELSE s

RECURSIVE RStrip(_)
RStrip(s) ==
    IF s # <<>> /\ s[Len(s)] \in Whitespace
    THEN RStrip(SubSeq(s, 1, Len(s) - 1)) ELSE s

\* str.strip
Strip(s) == RStrip(LStrip(s))

\* The workers that run build attempts at the same time, and the copy of
\* the PackageSource and the BuildRecord each holds.
Workers == {1, 2}

NoWorker == [pc |-> "idle", loaded |-> 0, build_counter |-> 0, rec |-> 0,
             saved_logpath |-> None]

NoAttempt ==
    [pc |-> "idle", id |-> 0, build_counter |-> 0, counter_before |-> 0,
     tmpdir |-> 0, sha |-> None, version |-> "", saved_logpath |-> None,
     moved_at |-> 0,
     outcome |-> "none", produced |-> 0, next |-> 1, include_failed |-> 0,
     steps |-> <<>>,
     checkout_exit |-> 0, built |-> FALSE,
     repo_before |-> FreshRepo,
     source_before |-> [last_seen_revision |-> None,
                        last_built_version |-> None,
                        last_built_name |-> None]]

\* The i-th .changes file the builder leaves in the working area of build
\* number n: a package and its debug symbols.
DebOf(i, n) == <<"p", ToString(i), "_", ToString(n), ".", "d", "e", "b">>

DdebOf(i, n) == <<"p", ToString(i), "_", ToString(n), ".", "d", "d", "e", "b">>

ChangesOf(i, n) ==
    [section \in Sections |-> [present |-> TRUE, files |-> <<DdebOf(i, n), DebOf(i, n)>>]]

\* History: the fields of the PackageSource other than build_counter.
SourceFields ==
    [last_seen_revision |-> last_seen_revision,
     last_built_version |-> last_built_version,
     last_built_name |-> last_built_name]

\* The attempt ends: `outcome` is "success" or names the exception that
\* leaves build_real.
Ended(a, outcome, step) ==
    [a EXCEPT !.pc = "done", !.outcome = outcome, !.steps = Append(@, step)]

BuildStartNoSave ==
    /\ attempt.pc \in {"idle", "done"}
    /\ Len(records) < MaxBuilds
    /\ LET c == build_counter + 1 IN
       /\ build_counter' = build_counter
       /\ records' = Append(records, [build_counter |-> c, sha |-> None, version |-> ""])
       /\ attempt' = [NoAttempt EXCEPT !.pc = "checkout", !.id = Len(records) + 1,
                                       !.build_counter = c,
                                       !.counter_before = build_counter,
                                       !.repo_before = repo,
                                       !.source_before = SourceFields,
                                       !.steps = <<"start">>]
       /\ logs' = [logs EXCEPT !.written = Append(@, <<>>)]
       /\ last_op' = NoOp
    /\ UNCHANGED <<frameVars, pollVars, repo, changes_files, tmpdirs>>

BuildStartStaleRecord ==
    /\ attempt.pc \in {"idle", "done"}
    /\ Len(records) < MaxBuilds
    /\ LET c == build_counter + 1 IN
       /\ build_counter' = c
       /\ records' = Append(records, [build_counter |-> build_counter,
                                      sha |-> None, version |-> ""])
       /\ attempt' = [NoAttempt EXCEPT !.pc = "checkout", !.id = Len(records) + 1,
                                       !.build_counter = c,
                                       !.counter_before = build_counter,
                                       !.repo_before = repo,
                                       !.source_before = SourceFields,
                                       !.steps = <<"start">>]
       /\ logs' = [logs EXCEPT !.written = Append(@, <<>>)]
       /\ last_op' = NoOp
    /\ UNCHANGED <<frameVars, pollVars, repo, changes_files, tmpdirs>>

\* build_real, lines 282-286: the counter is incremented and saved, the
\* BuildRecord is created with it and saved.
BuildStart ==
    /\ attempt.pc \in {"idle", "done"}
    /\ Len(records) < MaxBuilds
    /\ LET c == build_counter + 1 IN
       /\ build_counter' = c
       /\ records' = Append(records, [build_counter |-> c, sha |-> None, version |-> ""])
       /\ attempt' = [NoAttempt EXCEPT !.pc = "checkout", !.id = Len(records) + 1,
                                       !.build_counter = c,
                                       !.counter_before = build_counter,
                                       !.repo_before = repo,
                                       !.source_before = SourceFields,
                                       !.steps = <<"start">>]
       /\ logs' = [logs EXCEPT !.written = Append(@, <<>>)]
       /\ last_op' = NoOp
    /\ UNCHANGED <<frameVars, pollVars, repo, changes_files, tmpdirs>>

\* checkout, lines 266-268: `except: shutil.rmtree(tmpdir); raise`
ExceptRmtree(dirs, d) == dirs \ {d}

\* build_real, lines 303-304: `finally: shutil.rmtree(tmpdir)`
FinallyRmtree(dirs, d) == dirs \ {d}

CheckoutKeepsGoing ==
    /\ attempt.pc = "checkout"
    /\ \E clone \in ExitCodes, revparse \in ExitCodes, stdout \in RevParseOutputs :
          LET a == LoggerProperty(logs, attempt)
              d == attempt.id
              l1 == LogWrite(a.logs, a.br)
              l2 == LogWrite(l1, a.br)
          IN  /\ logs' = l2
              /\ tmpdirs' = tmpdirs \cup {d}
              /\ attempt' = [a.br EXCEPT !.pc = "save_sha", !.tmpdir = d,
                                         !.sha = Strip(stdout),
                                         !.checkout_exit =
                                             IF clone # 0 THEN clone ELSE revparse,
                                         !.steps = Append(@, "checkout")]
    /\ changes_files' = <<>>
    /\ UNCHANGED <<frameVars, pollVars, repo, last_op, build_counter, records>>

\* build_real, line 288: br.logger is read, then checkout() makes the
\* working area, clones and reads the sha; each git command logs its output.
\* repo_before is history, the repository as the attempt found it: it is
\* kept until checkout has returned.
Checkout ==
    /\ attempt.pc = "checkout"
    /\ \E clone \in ExitCodes, revparse \in ExitCodes, stdout \in RevParseOutputs :
          LET a == LoggerProperty(logs, attempt)
              d == attempt.id
              made == tmpdirs \cup {d}
              l1 == LogWrite(a.logs, a.br)
              l2 == LogWrite(l1, a.br)
          IN  IF RunCmdRaises(clone)
              THEN /\ logs' = l1
                   /\ tmpdirs' = ExceptRmtree(made, d)
                   /\ attempt' = [Ended(a.br, "checkout_failed", "checkout")
                                     EXCEPT !.checkout_exit = clone]
              ELSE IF RunCmdRaises(revparse)
              THEN /\ logs' = l2
                   /\ tmpdirs' = ExceptRmtree(made, d)
                   /\ attempt' = [Ended(a.br, "checkout_failed", "checkout")
                                     EXCEPT !.checkout_exit = revparse]
              ELSE /\ logs' = l2
                   /\ tmpdirs' = made
                   /\ attempt' = [a.br EXCEPT !.pc = "save_sha", !.tmpdir = d,
                                              !.sha = Strip(stdout),
                                              !.repo_before = FreshRepo,
                                              !.steps = Append(@, "checkout")]
    /\ changes_files' = <<>>
    /\ UNCHANGED <<frameVars, pollVars, repo, last_op, build_counter, records>>

\* build_real, line 289: br.save() with the sha, before the try block. A
\* save that raises leaves build_real there.
SaveSha ==
    /\ attempt.pc = "save_sha"
    /\ \E saved \in BOOLEAN :
          IF saved
          THEN /\ records' = [records EXCEPT ![attempt.id].sha = attempt.sha]
               /\ attempt' = [attempt EXCEPT !.pc = "build",
                                             !.steps = Append(@, "save_sha")]
          ELSE /\ records' = records
               /\ attempt' = Ended(attempt, "save_failed", "save_sha")
    /\ UNCHANGED <<frameVars, pollVars, repoVars, build_counter, tmpdirs, logs>>

NoBuilderForgetsLastBuilt ==
    /\ attempt.pc = "build"
    /\ attempt' = Ended(attempt, "no_builder", "choose_builder")
    /\ tmpdirs' = FinallyRmtree(tmpdirs, attempt.tmpdir)
    /\ changes_files' = <<>>
    /\ last_built_name' = <<>>
    /\ UNCHANGED <<last_built_version, workers, pollVars, repo, last_op,
                   build_counter, records, logs>>

\* build_real, lines 291-292: choose_builder finds no builder for the tree.
NoBuilder ==
    /\ attempt.pc = "build"
    /\ attempt' = Ended(attempt, "no_builder", "choose_builder")
    /\ tmpdirs' = FinallyRmtree(tmpdirs, attempt.tmpdir)
    /\ changes_files' = <<>>
    /\ UNCHANGED <<frameVars, pollVars, repo, last_op, build_counter, records, logs>>

\* build_real, lines 291-295: the builder logs its output through
\* br.logger, may set br.version to `v` and save it, may log again, and
\* either fails or leaves `n` .changes files in the working area.
Build ==
    /\ attempt.pc = "build"
    /\ \E v \in BuiltVersions \cup {""}, again \in BOOLEAN, ok \in BOOLEAN, n \in 0..MaxChanges :
          LET b0 == [attempt EXCEPT !.steps = @ \o <<"choose_builder", "build">>]
              w1 == LogThroughProperty(logs, b0)
              b1 == [w1.br EXCEPT !.version = v]
              w2 == IF again THEN LogThroughProperty(w1.logs, b1)
                    ELSE [logs |-> w1.logs, br |-> b1]
          IN  /\ logs' = w2.logs
              /\ records' = [records EXCEPT ![attempt.id].version = v]
              /\ IF ok
                 THEN /\ attempt' = [w2.br EXCEPT !.pc = "publish", !.produced = n,
                                                   !.built = TRUE]
                      /\ changes_files' = [i \in 1..n |-> ChangesOf(i, attempt.build_counter)]
                      /\ tmpdirs' = tmpdirs
                 ELSE /\ n = 0
                      /\ attempt' = [w2.br EXCEPT !.pc = "done", !.outcome = "builder_failed"]
                      /\ changes_files' = <<>>
                      /\ tmpdirs' = FinallyRmtree(tmpdirs, attempt.tmpdir)
    /\ UNCHANGED <<frameVars, pollVars, repo, last_op, build_counter>>

\* History: the first file of the attempt whose include has failed.
Noted(a, i, env, res) ==
    IF /\ a.include_failed = 0
       /\ RunCmdRaises(EnvSeen(env, res.calls).exit["reprepro include"])
    THEN [a EXCEPT !.include_failed = i]
    ELSE a

PublishKeepsGoing ==
    /\ attempt.pc = "publish"
    /\ attempt.next <= Len(changes_files)
    /\ \E env \in Envs :
          LET i == attempt.next
              res == ProcessChanges(repo, changes_files[i], env)
          IN  /\ repo' = res.repo
              /\ last_op' = OpRecord("process_changes", res, env, i,
                                     changes_files[i], res.changes)
              /\ attempt' = [Noted(attempt, i, env, res) EXCEPT
                                 !.next = i + 1,
                                 !.steps = Append(@, "process_changes")]
              /\ changes_files' = [changes_files EXCEPT ![i] = res.changes]
              /\ tmpdirs' = tmpdirs
    /\ UNCHANGED <<frameVars, pollVars, build_counter, records, logs>>

\* build_real, lines 299-300: process_changes for the next .changes file;
\* an exception leaves the loop and build_real.
Publish ==
    /\ attempt.pc = "publish"
    /\ attempt.next <= Len(changes_files)
    /\ \E env \in Envs :
          LET i == attempt.next
              res == ProcessChanges(repo, changes_files[i], env)
          IN  /\ repo' = res.repo
              /\ last_op' = OpRecord("process_changes", res, env, i,
                                     changes_files[i], res.changes)
              /\ IF res.raised
                 THEN /\ attempt' = Ended(Noted(attempt, i, env, res),
                                          "publish_failed", "process_changes")
                      /\ changes_files' = <<>>
                      /\ tmpdirs' = FinallyRmtree(tmpdirs, attempt.tmpdir)
                 ELSE /\ attempt' = [attempt EXCEPT !.next = i + 1,
                                                   !.steps = Append(@, "process_changes")]
                      /\ changes_files' = [changes_files EXCEPT ![i] = res.changes]
                      /\ tmpdirs' = tmpdirs
    /\ UNCHANGED <<frameVars, pollVars, build_counter, records, logs>>

FinalNoExport ==
    /\ attempt.pc = "publish"
    /\ attempt.next > Len(changes_files)
    /\ attempt' = Ended(attempt, "success", "rmtree")
    /\ changes_files' = <<>>
    /\ tmpdirs' = FinallyRmtree(tmpdirs, attempt.tmpdir)
    /\ UNCHANGED <<frameVars, pollVars, repo, last_op, build_counter, records, logs>>

\* build_real, lines 302-304: the last export() once the loop is over, and
\* the working area is removed.
FinalExport ==
    /\ attempt.pc = "publish"
    /\ attempt.next > Len(changes_files)
    /\ \E env \in Envs :
          LET res == Export(repo, env) IN
          /\ repo' = res.repo
          /\ last_op' = OpRecord("export", res, env, 0, NoManifest, NoManifest)
          /\ attempt' = Ended(attempt,
                              IF res.raised THEN "export_failed" ELSE "success",
                              "export")
    /\ changes_files' = <<>>
    /\ tmpdirs' = FinallyRmtree(tmpdirs, attempt.tmpdir)
    /\ UNCHANGED <<frameVars, pollVars, build_counter, records, logs>>

(***************************************************************************)
(* The log of a BuildRecord while its build runs                           *)
(***************************************************************************)

\* build_real, line 288: the first read of br.logger, before checkout and
\* the builder run.
FirstRead ==
    /\ attempt.pc = "checkout"
    /\ LET a == LoggerProperty(logs, attempt) IN
       /\ logs' = a.logs
       /\ attempt' = [a.br EXCEPT !.pc = "build"]
    /\ UNCHANGED <<frameVars, pollVars, repoVars, build_counter, records, tmpdirs>>

\* A read of br.logger by the code that builds.
ReadLogger ==
    /\ attempt.pc = "build"
    /\ LET a == LoggerProperty(logs, attempt) IN
       /\ logs' = a.logs
       /\ attempt' = a.br
    /\ UNCHANGED <<frameVars, pollVars, repoVars, build_counter, records, tmpdirs>>

\* A line logged through the logger object read before (run_cmd is handed
\* the logger object and logs the output of its command to it).
LogLine ==
    /\ attempt.pc = "build"
    /\ Len(logs.written[attempt.id]) < MaxLines
    /\ logs' = LogWrite(logs, attempt)
    /\ UNCHANGED <<frameVars, pollVars, repoVars, build_counter, records, attempt, tmpdirs>>

\* The builder sets br.version and saves the record.
SetVersion ==
    /\ attempt.pc = "build"
    /\ \E v \in Versions \cup {""} :
          /\ v # attempt.version
          /\ attempt' = [attempt EXCEPT !.version = v]
          /\ records' = [records EXCEPT ![attempt.id].version = v]
    /\ UNCHANGED <<frameVars, pollVars, repoVars, build_counter, tmpdirs, logs>>

\* build_real returns or raises.
EndBuild ==
    /\ attempt.pc = "build"
    /\ attempt' = [attempt EXCEPT !.pc = "done"]
    /\ UNCHANGED <<frameVars, pollVars, repoVars, build_counter, records, tmpdirs, logs>>

(***************************************************************************)
(* Build attempts of one PackageSource that run at the same time           *)
(***************************************************************************)

\* The BuildRecord object the worker `w` holds.
BrOf(w) ==
    [NoAttempt EXCEPT !.id = workers[w].rec,
                      !.build_counter = workers[w].build_counter,
                      !.saved_logpath = workers[w].saved_logpath]

\* The attempts that have loaded the source and not yet made their record.
Starting == {w \in Workers : workers[w].pc \in {"loaded", "saved"}}

\* The worker is handed the id of the source and loads its own copy of the
\* row. Nothing keeps two workers from doing so for one source.
Load(w) ==
    /\ workers[w].pc = "idle"
    /\ Len(records) + Cardinality(Starting) < MaxBuilds
    /\ workers' = [workers EXCEPT ![w] =
                      [NoWorker EXCEPT !.pc = "loaded",
                                       !.loaded = build_counter,
                                       !.build_counter = build_counter]]
    /\ UNCHANGED <<pollVars, repoVars, buildVars, last_built_version, last_built_name>>

IncrementSaveAtomic(w) ==
    /\ workers[w].pc = "loaded"
    /\ build_counter' = build_counter + 1
    /\ workers' = [workers EXCEPT ![w].pc = "saved",
                                  ![w].build_counter = build_counter + 1]
    /\ UNCHANGED <<pollVars, repoVars, records, attempt, tmpdirs, logs,
                   last_built_version, last_built_name>>

\* build_real, lines 282-283: the counter of the copy is incremented and
\* the copy is saved over the row.
IncrementSave(w) ==
    /\ workers[w].pc = "loaded"
    /\ build_counter' = workers[w].build_counter + 1
    /\ workers' = [workers EXCEPT ![w].pc = "saved",
                                  ![w].build_counter = @ + 1]
    /\ UNCHANGED <<pollVars, repoVars, records, attempt, tmpdirs, logs,
                   last_built_version, last_built_name>>

\* build_real, lines 285-286: the BuildRecord is created with the counter of
\* the copy and saved.
CreateRecord(w) ==
    /\ workers[w].pc = "saved"
    /\ records' = Append(records, [build_counter |-> workers[w].build_counter,
                                   sha |-> None, version |-> ""])
    /\ logs' = [logs EXCEPT !.written = Append(@, <<>>)]
    /\ workers' = [workers EXCEPT ![w].pc = "recorded",
                                  ![w].rec = Len(records) + 1]
    /\ UNCHANGED <<pollVars, repoVars, build_counter, attempt, tmpdirs,
                   last_built_version, last_built_name>>

\* build_real, line 288: br.logger is read and opens the provisional log.
WorkerLogger(w) ==
    /\ workers[w].pc = "recorded"
    /\ LET a == LoggerProperty(logs, BrOf(w)) IN
       /\ logs' = a.logs
       /\ workers' = [workers EXCEPT ![w].pc = "logging",
                                     ![w].saved_logpath = a.br.saved_logpath]
    /\ UNCHANGED <<pollVars, repoVars, build_counter, records, attempt, tmpdirs,
                   last_built_version, last_built_name>>

\* A command of the attempt logs a line of its output.
WorkerLogLine(w) ==
    /\ workers[w].pc = "logging"
    /\ Len(logs.written[workers[w].rec]) < MaxLines - 1
    /\ logs' = LogWrite(logs, BrOf(w))
    /\ UNCHANGED <<pollVars, repoVars, build_counter, records, attempt, tmpdirs,
                   last_built_version, last_built_name, workers>>

\* build_real returns or raises: the worker is free again.
WorkerEnd(w) ==
    /\ workers[w].pc = "logging"
    /\ workers' = [workers EXCEPT ![w] = NoWorker]
    /\ UNCHANGED <<pollVars, repoVars, buildVars, last_built_version, last_built_name>>

(***************************************************************************)
(* Specifications                                                          *)
(***************************************************************************)

InitBuild ==
    /\ build_counter = 0
    /\ records = <<>>
    /\ attempt = NoAttempt
    /\ tmpdirs = {}
    /\ logs = NoLogs
    /\ last_built_version = None
    /\ last_built_name = None
    /\ workers = [w \in Workers |-> NoWorker]

\* Polls of one PackageSource.
InitPoll ==
    /\ last_seen_revision \in {None, <<"a">>, <<"b">>}
    /\ poll_hist = NoPoll
    /\ repo = FreshRepo
    /\ changes_files = <<>>
    /\ last_op = NoOp
    /\ InitBuild

NextPoll == DoPoll

SpecPoll == InitPoll /\ [][NextPoll]_vars

\* Calls of export and process_changes on one Repository and one upload
\* manifest.
InitRepo ==
    /\ last_seen_revision = None
    /\ poll_hist = NoPoll
    /\ repo = FreshRepo
    /\ changes_files \in {<<m>> : m \in Manifests}
    /\ last_op = NoOp
    /\ InitBuild

NextRepo == DoExport \/ DoProcessChanges

SpecRepo == InitRepo /\ [][NextRepo]_vars

\* Build attempts of one PackageSource, one after the other.
Init ==
    /\ last_seen_revision = None
    /\ poll_hist = NoPoll
    /\ repo = FreshRepo
    /\ changes_files = <<>>
    /\ last_op = NoOp
    /\ InitBuild

Next ==
    \/ BuildStart
    \/ Checkout
    \/ SaveSha
    \/ NoBuilder
    \/ Build
    \/ Publish
    \/ FinalExport

Spec == Init /\ [][Next]_vars

\* The reads of br.logger, the lines logged and the changes of br.version of
\* build attempts, one attempt after the other.
NextLog ==
    \/ BuildStart
    \/ FirstRead
    \/ ReadLogger
    \/ LogLine
    \/ SetVersion
    \/ EndBuild

SpecLog == Init /\ [][NextLog]_vars

\* Build attempts of one PackageSource on two workers, with no order
\* between them.
NextRace ==
    \E w \in Workers :
        \/ Load(w)
        \/ IncrementSave(w)
        \/ CreateRecord(w)
        \/ WorkerLogger(w)
        \/ WorkerLogLine(w)
        \/ WorkerEnd(w)

SpecRace == Init /\ [][NextRace]_vars

(***************************************************************************)
(* Properties                                                              *)
(***************************************************************************)

Range(seq) == {seq[i] : i \in DOMAIN seq}

\* The first position of `x` in `seq`, 0 when it is not there.
FirstIndex(seq, x) ==
    IF x \in Range(seq)
    THEN CHOOSE i \in DOMAIN seq : seq[i] = x /\ \A j \in 1..(i - 1) : seq[j] # x
    ELSE 0

\* The sha a poll that ran git successfully has read.
PolledSha(h) == SplitTabHead(h.stdout)

\* C4: in every poll, last_seen_revision changes if and only if the poll
\* returns True; a poll that reads the hash last_seen_revision holds returns
\* False and changes nothing; the second of two consecutive polls that read
\* the same hash changes nothing.
C4_PollChangesIffTrue ==
    [][ /\ (last_seen_revision' # last_seen_revision) <=> (poll_hist'.ret = "True")
        /\ (poll_hist'.cmd = "ok" /\ PolledSha(poll_hist') = last_seen_revision)
              => (poll_hist'.ret = "False" /\ last_seen_revision' = last_seen_revision)
        /\ (poll_hist'.cmd = "ok" /\ poll_hist.cmd = "ok"
              /\ PolledSha(poll_hist') = PolledSha(poll_hist))
              => (poll_hist'.ret = "False" /\ last_seen_revision' = last_seen_revision)
      ]_pollVars

\* A poll returned True and stored the new hash, and the next poll read the
\* same hash from another output and returned False.
C4_Witness ==
    /\ poll_hist.prev_ret = "True"
    /\ poll_hist.prev_cmd = "ok"
    /\ poll_hist.cmd = "ok"
    /\ poll_hist.stdout # poll_hist.prev_stdout
    /\ PolledSha(poll_hist) = SplitTabHead(poll_hist.prev_stdout)
    /\ poll_hist.ret = "False"
    /\ last_seen_revision = <<"b">>

\* The remote query of the last poll failed: git exited nonzero, or it
\* printed no ref line for the branch (the branch is not there).
RemoteQueryFailed ==
    \/ poll_hist.cmd = "raised"
    \/ /\ poll_hist.cmd = "ok"
       /\ TAB \notin Range(poll_hist.stdout)

\* C5: a poll whose remote query failed ends in a poll error: it returns
\* neither True nor False and last_seen_revision is what it was.
C5_FailedQueryIsPollError ==
    RemoteQueryFailed =>
        /\ poll_hist.ret = "raised"
        /\ last_seen_revision = poll_hist.before

\* C7: once key_id is not empty no call changes it or generates a key, once
\* repo.key is there no call writes it, and a call that ends normally on a
\* Repository without key_id has generated one key and written repo.key
\* from it.
C7_KeyGeneratedOnce ==
    [][ /\ ~Falsy(repo.key_id)
              => /\ repo'.key_id = repo.key_id
                 /\ repo'.keys_generated = repo.keys_generated
        /\ repo.keyfile # NoFile
              => /\ repo'.keyfile = repo.keyfile
                 /\ repo'.key_writes = repo.key_writes
        /\ (Falsy(repo.key_id) /\ last_op' # last_op /\ ~last_op'.raised)
              => /\ ~Falsy(repo'.key_id)
                 /\ repo'.keys_generated = repo.keys_generated + 1
                 /\ repo'.keyfile = <<"armor", repo'.key_id>>
                 /\ repo'.key_writes = 1
      ]_repoVars

\* export() has run to its end on a Repository that had its key and its
\* repo.key, after process_changes calls, and there is still one key.
C7_Witness ==
    /\ last_op.op = "export"
    /\ ~last_op.raised
    /\ ~Falsy(last_op.key_before)
    /\ last_op.keyfile_before # NoFile
    /\ repo.pool # {}
    /\ repo.key_id = <<"K", 1>>
    /\ repo.key_writes = 1

\* C8: an export() that ends normally right after an export() that ended
\* normally leaves the repository as it was.
C8_ExportIdempotent ==
    [][ ( /\ last_op.op = "export" /\ ~last_op.raised
          /\ last_op'.op = "export" /\ ~last_op'.raised )
        => repo' = repo ]_repoVars

\* Two export() calls in a row have ended normally on a repository that
\* holds packages.
C8_Witness ==
    /\ last_op.op = "export"
    /\ ~last_op.raised
    /\ last_op.after_export
    /\ repo.pool # {}
    /\ repo.index = [exported |-> TRUE, pkgs |-> repo.pool]

\* C9: a process_changes whose include fails raises, adds nothing to the
\* pool or the index and does not call export(); a process_changes calls
\* export() only after an include that succeeded.
C9_IncludeFailureFailsAll ==
    [][ last_op'.op = "process_changes" =>
          /\ RunCmdRaises(last_op'.env.exit["reprepro include"])
                => /\ last_op'.raised
                   /\ repo'.pool = repo.pool
                   /\ repo'.index = repo.index
                   /\ "export" \notin Range(last_op'.calls)
          /\ "export" \in Range(last_op'.calls)
                => /\ ~RunCmdRaises(last_op'.env.exit["reprepro include"])
                   /\ FirstIndex(last_op'.calls, "reprepro include") > 0
                   /\ FirstIndex(last_op'.calls, "reprepro include")
                        < FirstIndex(last_op'.calls, "export")
                   /\ FilesOf(last_op'.changes_out) \subseteq repo'.pool
      ]_repoVars

\* The include of a manifest that lists a package the pool lacks has failed.
C9_Witness ==
    /\ last_op.op = "process_changes"
    /\ RunCmdRaises(last_op.env.exit["reprepro include"])
    /\ last_op.raised
    /\ DebName \in FilesOf(last_op.changes_out)
    /\ DebName \notin repo.pool

\* The name ends in .ddeb
IsDdebName(n) ==
    /\ Len(n) >= 5
    /\ \A k \in 1..5 : n[Len(n) - 5 + k] = DDEB[k]

\* `out` is `before` without its .ddeb names: it holds every other entry of
\* `before`, in the order of `before`, and nothing else.
KeepsOthersInOrder(before, out) ==
    \E f \in [1..Len(out) -> 1..Len(before)] :
        /\ \A j, k \in 1..Len(out) : j < k => f[j] < f[k]
        /\ \A j \in 1..Len(out) : out[j] = before[f[j]]
        /\ \A i \in 1..Len(before) :
               ~IsDdebName(before[i]) => \E j \in 1..Len(out) : f[j] = i

\* C10: after process_changes no section the manifest has lists a .ddeb
\* name, each lists its other entries in their order, the manifest was
\* stripped before include ran, and no .ddeb name reaches the pool.
C10_DdebsStripped ==
    /\ last_op.op = "process_changes" =>
          /\ \A s \in Sections :
                 last_op.changes_in[s].present =>
                    /\ last_op.changes_out[s].present
                    /\ \A j \in 1..Len(last_op.changes_out[s].files) :
                           ~IsDdebName(last_op.changes_out[s].files[j])
                    /\ KeepsOthersInOrder(last_op.changes_in[s].files,
                                          last_op.changes_out[s].files)
          /\ changes_files[last_op.file] = last_op.changes_out
          /\ "reprepro include" \in Range(last_op.calls)
                => /\ FirstIndex(last_op.calls, "remove_ddebs_from_changes") > 0
                   /\ FirstIndex(last_op.calls, "remove_ddebs_from_changes")
                        < FirstIndex(last_op.calls, "reprepro include")
    /\ \A n \in repo.pool : ~IsDdebName(n)

\* A manifest that lists foo.ddeb and foo.deb has been processed and
\* included, and it lists foo.deb alone.
C10_Witness ==
    /\ last_op.op = "process_changes"
    /\ ~last_op.raised
    /\ \A s \in Sections :
           /\ last_op.changes_in[s] = [present |-> TRUE, files |-> <<DdebName, DebName>>]
           /\ last_op.changes_out[s] = [present |-> TRUE, files |-> <<DebName>>]
    /\ repo.pool = {DebName}

\* The number of times `x` is in `seq`
Count(seq, x) == Cardinality({i \in DOMAIN seq : seq[i] = x})

\* C1: from the start of a build attempt to its end, however it ends, the
\* persisted build_counter is its value before the attempt plus 1.
C1_CounterPlusOne ==
    attempt.pc # "idle" =>
        /\ build_counter = attempt.counter_before + 1
        /\ attempt.build_counter = build_counter

\* A second attempt has ended in a failure to publish.
C1_Witness ==
    /\ attempt.pc = "done"
    /\ attempt.counter_before = 1
    /\ build_counter = 2
    /\ attempt.outcome = "publish_failed"

\* C2: when a build attempt has ended, its temporary working area is gone.
C2_TmpdirRemoved ==
    attempt.pc = "done" => attempt.id \notin tmpdirs

C6_LogContinuity ==
    ( /\ attempt.id > 0
      /\ attempt.version # ""
      /\ attempt.saved_logpath = Buildlog(attempt) ) =>
        /\ Buildlog(attempt) \in DOMAIN logs.files
        /\ logs.inodes[logs.files[Buildlog(attempt)]] = logs.written[attempt.id]
        /\ Buildlog([attempt EXCEPT !.version = ""]) \notin DOMAIN logs.files

\* The log of a record was moved to the version-qualified path when it held
\* two lines, and a third line has been logged since.
C6_Witness ==
    /\ attempt.id > 0
    /\ attempt.version # ""
    /\ attempt.saved_logpath = Buildlog(attempt)
    /\ Buildlog(attempt) \in DOMAIN logs.files
    /\ attempt.moved_at = 2
    /\ logs.inodes[logs.files[Buildlog(attempt)]] =
           <<<<attempt.id, 1>>, <<attempt.id, 2>>, <<attempt.id, 3>>>>

\* The failures of a build attempt: of checkout, of the choice of the
\* builder, of the builder, of process_changes and of the last export.
ListedFailures ==
    {"checkout_failed", "no_builder", "builder_failed", "publish_failed",
     "export_failed"}

\* C11: the step that ends a build attempt in a failure writes the
\* BuildRecord or its log: the record of a failed attempt is not the record
\* the attempt had while it ran.
C11_FailureRecorded ==
    [][ ( /\ attempt.pc \notin {"idle", "done"}
          /\ attempt'.pc = "done"
          /\ attempt'.outcome \in ListedFailures )
        => \/ records'[attempt'.id] # records[attempt.id]
           \/ logs'.written[attempt'.id] # logs.written[attempt.id] ]_vars

\* C12: when a git command of checkout fails, the attempt ends there with
\* the error: no builder is chosen or run, process_changes and export are
\* not called, the repository is what it was before the attempt, no sha is
\* recorded and the working area is gone.
C12_CheckoutFailureStops ==
    attempt.checkout_exit # 0 =>
        /\ attempt.pc = "done"
        /\ attempt.outcome = "checkout_failed"
        /\ attempt.steps = <<"start", "checkout">>
        /\ last_op = NoOp
        /\ repo = attempt.repo_before
        /\ attempt.sha = None
        /\ records[attempt.id].sha = None
        /\ attempt.id \notin tmpdirs

\* The checkout of a second attempt has failed on a repository that holds
\* the packages of the first.
C12_Witness ==
    /\ attempt.checkout_exit # 0
    /\ attempt.pc = "done"
    /\ attempt.id = 2
    /\ repo.pool # {}
    /\ repo = attempt.repo_before

\* C13: a build attempt that has failed leaves last_seen_revision,
\* last_built_version and last_built_name as they were before it, and has
\* run checkout, the choice of the builder and the builder at most once each.
C13_FailedAttemptFrame ==
    (attempt.pc = "done" /\ attempt.outcome # "success") =>
        /\ SourceFields = attempt.source_before
        /\ Count(attempt.steps, "checkout") <= 1
        /\ Count(attempt.steps, "choose_builder") <= 1
        /\ Count(attempt.steps, "build") <= 1

\* An attempt has failed because no builder was found, after one checkout.
C13_Witness ==
    /\ attempt.pc = "done"
    /\ attempt.outcome = "no_builder"
    /\ Count(attempt.steps, "checkout") = 1
    /\ Count(attempt.steps, "choose_builder") = 1

\* C14: there is one BuildRecord per attempt; the record of the attempt is
\* there before checkout runs and carries the counter the source has after
\* the increment; its sha is set only once checkout has succeeded and its
\* version is empty until the builder has run.
C14_OneRecordPerAttempt ==
    attempt.pc # "idle" =>
        /\ Len(records) = build_counter
        /\ attempt.id = Len(records)
        /\ records[attempt.id].build_counter = attempt.counter_before + 1
        /\ records[attempt.id].build_counter = build_counter
        /\ attempt.pc = "checkout" =>
              records[attempt.id] = [build_counter |-> build_counter,
                                     sha |-> None, version |-> ""]
        /\ attempt.sha # None =>
              /\ attempt.checkout_exit = 0
              /\ "checkout" \in Range(attempt.steps)
        /\ records[attempt.id].sha # None =>
              /\ records[attempt.id].sha = attempt.sha
              /\ attempt.sha # None
        /\ records[attempt.id].version # "" => "build" \in Range(attempt.steps)

\* The record of a second attempt carries the counter 2, the sha checkout
\* has read and the version the builder has set.
C14_Witness ==
    /\ attempt.pc = "publish"
    /\ Len(records) = 2
    /\ records[2] = [build_counter |-> 2, sha |-> <<"a">>, version |-> "1.0"]
    /\ records[1].build_counter = 1

\* C15: once the builder has completed and process_changes has returned for
\* each .changes file (there may be none), the step that ends the attempt
\* calls export(), with the working area still there, and then removes the
\* working area; when the attempt succeeds, `reprepro export` is the last
\* tool the attempt has run and the index is the pool.
C15_FinalExport ==
    [][ ( /\ attempt.pc = "publish"
          /\ attempt.built
          /\ attempt.next > attempt.produced
          /\ attempt'.pc = "done" )
        => /\ attempt.tmpdir \in tmpdirs
           /\ Count(attempt.steps, "process_changes") = attempt.produced
           /\ last_op'.op = "export"
           /\ attempt'.steps = Append(attempt.steps, "export")
           /\ attempt'.outcome \in {"success", "export_failed"}
           /\ attempt'.outcome = "success" <=> ~last_op'.raised
           /\ attempt'.outcome = "success" =>
                 /\ last_op'.calls[Len(last_op'.calls)] = "reprepro export"
                 /\ repo'.index = [exported |-> TRUE, pkgs |-> repo'.pool]
           /\ attempt.tmpdir \notin tmpdirs' ]_vars

\* An attempt whose builder has left no .changes file has succeeded: it has
\* called export() and nothing else on the repository.
C15_Witness ==
    /\ attempt.pc = "done"
    /\ attempt.outcome = "success"
    /\ attempt.built
    /\ attempt.produced = 0
    /\ last_op.op = "export"
    /\ repo.index.exported

\* The worker has saved its counter and its attempt has not ended.
Counted(w) == workers[w].pc \in {"saved", "recorded", "logging"}

\* C16: when two attempts that overlap have loaded the same build_counter,
\* the persisted counter is that value plus 1 once both have saved it, their
\* BuildRecords carry that one value, and both records have the same
\* provisional log path, which is the path both loggers open.
C16_OverlapSharesCounter ==
    \A w1, w2 \in Workers :
        ( /\ w1 # w2
          /\ Counted(w1) /\ Counted(w2)
          /\ workers[w1].loaded = workers[w2].loaded ) =>
            /\ build_counter = workers[w1].loaded + 1
            /\ (workers[w1].rec > 0 /\ workers[w2].rec > 0) =>
                  /\ workers[w1].rec # workers[w2].rec
                  /\ records[workers[w1].rec].build_counter = workers[w1].loaded + 1
                  /\ records[workers[w2].rec].build_counter = workers[w1].loaded + 1
                  /\ Buildlog(BrOf(w1)) = Buildlog(BrOf(w2))
            /\ (workers[w1].pc = "logging" /\ workers[w2].pc = "logging") =>
                  /\ workers[w1].saved_logpath = workers[w2].saved_logpath
                  /\ workers[w1].saved_logpath \in DOMAIN logs.files

\* Two attempts that overlap have both made their record from the counter 0
\* and opened their log: two records carry 1, the persisted counter is 1.
C16_Witness ==
    /\ workers[1].pc = "logging"
    /\ workers[2].pc = "logging"
    /\ workers[1].loaded = 0
    /\ workers[2].loaded = 0
    /\ Len(records) = 2
    /\ records[1].build_counter = 1
    /\ records[2].build_counter = 1
    /\ build_counter = 1
    /\ workers[1].saved_logpath = workers[2].saved_logpath

\* C17: the BuildRecords of attempts that run one after the other carry the
\* counters 1..n in the order they were created, and the persisted
\* build_counter is n.
C17_CountersInOrder ==
    /\ \A i \in DOMAIN records : records[i].build_counter = i
    /\ \A i, j \in DOMAIN records :
           i # j => records[i].build_counter # records[j].build_counter
    /\ build_counter = Len(records)

\* Two attempts have run, the first has ended in a failure.
C17_Witness ==
    /\ Len(records) = 2
    /\ records[1].sha = None
    /\ records[2].build_counter = 2
    /\ build_counter = 2
    /\ attempt.pc = "done"

\* The lines logged for the record `i` are in the file at `path`, in order.
HoldsLogOf(path, i) ==
    LET content == logs.inodes[logs.files[path]] IN
    \E f \in [1..Len(logs.written[i]) -> 1..Len(content)] :
        /\ \A j, k \in DOMAIN f : j < k => f[j] < f[k]
        /\ \A j \in DOMAIN f : content[f[j]] = logs.written[i][j]

\* C18: the log of every BuildRecord stays on disk: whatever later attempts
\* of the source do, some log file holds the lines logged for the record.
C18_LogsKept ==
    \A i \in DOMAIN records :
        logs.written[i] # <<>> => \E path \in DOMAIN logs.files : HoldsLogOf(path, i)

\* C19: a call that runs `reprepro include` runs it on a Repository that
\* had its key when the call began, with the configuration rendered from
\* that key.
C19_KeyBeforeInclude ==
    "reprepro include" \in Range(last_op.calls) =>
        /\ ~Falsy(last_op.key_before)
        /\ repo.conf = <<"conf", repo.key_id>>

====
